---- MODULE Spec2Model ----
(***************************************************************************)
(* A model of the tact / tui-test execution engine:                        *)
(*   - the orchestrator  (runner.ts: run, runSuites)                       *)
(*   - the orchestrator side of a pool call (worker.ts: runTestWorker)     *)
(*   - the worker side of a pool call (worker.ts: testWorker)              *)
(*   - TestCase.outcome (testcase.ts)                                      *)
(*   - the earlier sequential runner (src/core/runner.ts)                  *)
(***************************************************************************)
EXTENDS Integers, Sequences, FiniteSets, TLC

(***************************************************************************)
(* Bounds of the model.                                                    *)
(***************************************************************************)
NumTests == 2
MaxRetries == 1
MaxLen == 4
NumCoreTests == 4

Tests == 1 .. NumTests
Files == {1, 2}
Rows == {1}
Titles == {"a", "b"}
RetryValues == (0 - 1) .. MaxRetries
(* <<timeout, globalTimeout>> of the configuration, in ms *)
TimeoutConfigs == {<<0, 0>>, <<500, 0>>, <<0, 100>>}

(* A test filter is a pattern: 0 is not a valid regular expression, a file *)
(* number is a pattern that matches the resolved path of that file only.   *)
BadPattern == 0
FilterInputs == {<< >>} \cup {<<p>> : p \in Files \cup {BadPattern}}

AnnotationSets == {{}, {"only"}, {"skip"}, {"fail"}}

(* Values a test body can throw (or reject with). *)
ThrownValues == {"string", "emptyString", "Error", "object", "number", "undefined"}

VARIABLES
  \* ---- the suite tree after loading (input) ----
  numDeclared,     \* the number of tests the loaded files declare
  fileOf,          \* test -> the file suite that holds it
  row,             \* test -> location.row of the declaration
  title,           \* test -> its title
  annotations,     \* test -> its annotations
  \* ---- configuration and execution options (input) ----
  retries, timeout, globalTimeout, testFilter,
  \* ---- run() ----
  pc,              \* position of run(): "start" | "selected" | "running" | "terminated" | "exited"
  allTests,        \* the selection, in order (a sequence of tests)
  filteredTestIds, \* the Set of ids handed to runSuites
  timerArmed,      \* the global setTimeout is pending
  exitCode,        \* argument of process.exit, -1 while the process runs
  stderr,          \* the diagnostic written by console.error ("" if none)
  \* ---- runSuites(): one task per test ----
  task,            \* test -> "idle" | "returned" | "awaiting" | "done"
  attempt,         \* test -> the loop variable i
  results,         \* test -> test.results
  promise,         \* test -> the promise of the runTestWorker call in progress
  calls,           \* test -> the pool calls made for it, in order
  \* ---- reporter ----
  reporterStarted, reporterEnded,
  endTests,        \* test -> the results handed to reporter.endTest, in order
  endTestAsync,    \* the reporter's endTest does work after it returned (a promise)
  inEndTest,       \* the endTest calls whose work is in progress: <<test, index>>
  \* ---- TestCase.outcome() applied to a results list ----
  outcome,         \* test -> last value returned by outcome(), "none" before
  \* ---- src/core/runner.ts ----
  corePc,          \* position of run(): "off" | "start" | "awaiting" | "exited"
  coreIdx,         \* the test runSuite is at, in the order it runs them
  corePassed,      \* test -> test.passed: "unset" | "passed" | "failed"
  coreErrorStack,  \* test -> test.errorStack has been set
  coreTimer,       \* the global setTimeout is pending
  coreExit         \* argument of process.exit, -1 while the process runs

treeVars == <<numDeclared, fileOf, row, title, annotations>>
configVars == <<retries, timeout, globalTimeout, testFilter>>
runVars == <<pc, allTests, filteredTestIds, timerArmed, exitCode, stderr>>
taskVars == <<task, attempt, results, promise, calls>>
reporterVars == <<reporterStarted, reporterEnded, endTests, endTestAsync, inEndTest>>
coreVars == <<corePc, coreIdx, corePassed, coreErrorStack, coreTimer, coreExit>>
mainVars == <<treeVars, configVars, runVars, taskVars, reporterVars, outcome, coreVars>>

VARIABLES
  \* ---- one worker process (worker.ts) ----
  wPc,             \* "off" | "idle" | "importing" | "body"
  wCalls,          \* the number of testWorker calls the process received
  wPath,           \* importPath of the call in progress (0 if none)
  importThrows,    \* path -> evaluating the file throws (input)
  importSet,       \* the module-level Set of imported paths
  imports,         \* path -> how many times import(path) was evaluated
  ptys,            \* the calls whose spawned PTY is alive
  wEmitted         \* call -> the event it emitted last: "none" | "start" | "error"

workerVars == <<wPc, wCalls, wPath, importThrows, importSet, imports, ptys, wEmitted>>
VARIABLES
  \* ---- expect(terminal).toHaveValue / .not.toHaveValue (toHaveValue.ts) ----
  buffer,          \* the terminal's buffer: its lines, the last ViewLines being viewable
  expected,        \* the expected value: [kind, text]
  full,            \* options.full
  expectTimeout,   \* options.timeout ?? getExpectTimeout()
  stable,          \* the buffer did not change since the first assertion started
  matcher          \* isNot -> the state of the assertion made with that isNot

matcherVars == <<buffer, expected, full, expectTimeout, stable, matcher>>
VARIABLES
  \* ---- the declarations of one test file (test.ts) ----
  script,          \* the declaration calls the file made so far, in order
  orch,            \* the suite tree and ambient suite in the orchestrator
  dphase,          \* "off" | "load" | "worker"
  work             \* the same in the worker, after it imported the file

declVars == <<script, orch, dphase, work>>
sideVars == <<workerVars, matcherVars, declVars>>
vars == <<mainVars, sideVars>>

(***************************************************************************)
(* Helpers                                                                 *)
(***************************************************************************)
Max(a, b) == IF a >= b THEN a ELSE b
Min(a, b) == IF a <= b THEN a ELSE b

RECURSIVE SelectSeq2(_, _)
(* Array.prototype.filter with the predicate given as a set of kept values *)
SelectSeq2(s, keep) ==
  IF s = << >> THEN << >>
  ELSE IF Head(s) \in keep THEN <<Head(s)>> \o SelectSeq2(Tail(s), keep)
       ELSE SelectSeq2(Tail(s), keep)

Range(s) == {s[k] : k \in 1 .. Len(s)}

(***************************************************************************)
(* TestCase                                                                *)
(***************************************************************************)
(* titlePath().join(""): the file title followed by row ":" row, then the  *)
(* test title (the projects of this model are untitled and its files hold  *)
(* no describe groups).                                                    *)
Id(t) == <<fileOf[t], row[t], row[t], title[t]>>

(* filePath(): the title of the enclosing file suite *)
FilePath(t) == fileOf[t]

Statuses == {"expected", "unexpected", "pending", "skipped", "flaky"}

RECURSIVE OutcomeLoopOneWay(_, _)
(* OutcomeLoop without the expected -> non-expected transition *)
OutcomeLoopOneWay(status, rest) ==
  IF rest = << >> THEN status
  ELSE IF status = "unexpected" /\ Head(rest) = "expected"
       THEN "flaky"
       ELSE OutcomeLoopOneWay(Head(rest), Tail(rest))

RECURSIVE OutcomeLoop(_, _)
(* the for loop of outcome() over results.slice(1), status being the       *)
(* status of the previous result                                           *)
OutcomeLoop(status, rest) ==
  IF rest = << >> THEN status
  ELSE IF (status = "unexpected" /\ Head(rest) = "expected")
          \/ (status = "expected" /\ Head(rest) # "expected")
       THEN "flaky"
       ELSE OutcomeLoop(Head(rest), Tail(rest))

(* TestCase.outcome() over the list of the results' statuses *)
Outcome(statuses) ==
  IF Len(statuses) = 0 THEN "skipped"
  ELSE OutcomeLoop(statuses[1], Tail(statuses))

StatusesOf(rs) == [k \in 1 .. Len(rs) |-> rs[k].status]

(***************************************************************************)
(* Worker results, promises and pool calls                                 *)
(***************************************************************************)
Err(text, ms) == [text |-> text, ms |-> ms]
NoError == Err("none", 0)

(* the promise returned by runTestWorker: pending until its first resolve  *)
Pending == [state |-> "pending", passed |-> FALSE, error |-> NoError]
WorkerResult(passed, error) == [state |-> "resolved", passed |-> passed, error |-> error]
SkippedResult == [state |-> "skipped", passed |-> FALSE, error |-> NoError]

(* Resolve with the last call winning *)
ResolveLast(p, value) == value

(* resolve(value) on a promise: only the first call settles it *)
Resolve(p, value) == IF p.state = "pending" THEN value ELSE p

(* values the pool promise can reject with, by what typeof / instanceof    *)
(* say about them; workerpool's TimeoutError is an Error too               *)
TimeoutError == [isString |-> FALSE, isTimeoutError |-> TRUE, isError |-> TRUE]
WorkerCrash == [isString |-> FALSE, isTimeoutError |-> FALSE, isError |-> TRUE]
StringRejection == [isString |-> TRUE, isTimeoutError |-> FALSE, isError |-> FALSE]
OtherRejection == [isString |-> FALSE, isTimeoutError |-> FALSE, isError |-> FALSE]

(* OnReject testing `instanceof Error` before the TimeoutError *)
OnRejectErrorFirst(p, e) ==
  IF e.isString THEN Resolve(p, WorkerResult(FALSE, Err("rejection", 0)))
  ELSE IF e.isError THEN Resolve(p, WorkerResult(FALSE, Err("rejection stack", 0)))
  ELSE IF e.isTimeoutError THEN Resolve(p, WorkerResult(FALSE, Err("timeout", timeout)))
  ELSE p

(* the catch block of runTestWorker *)
OnReject(p, e) ==
  IF e.isString THEN Resolve(p, WorkerResult(FALSE, Err("rejection", 0)))
  ELSE IF e.isTimeoutError THEN Resolve(p, WorkerResult(FALSE, Err("timeout", timeout)))
  ELSE IF e.isError THEN Resolve(p, WorkerResult(FALSE, Err("rejection stack", 0)))
  ELSE p

(* OnPayload resolving the error event as a pass *)
OnPayloadPassed(p, errorMessage) ==
  IF errorMessage \notin {"", "undefined"}
  THEN Resolve(p, WorkerResult(TRUE, Err(errorMessage, 0)))
  ELSE p

(* the `on` handler of pool.exec, for a payload carrying errorMessage *)
OnPayload(p, errorMessage) ==
  IF errorMessage \notin {"", "undefined"}
  THEN Resolve(p, WorkerResult(FALSE, Err(errorMessage, 0)))
  ELSE p

(* after `await poolPromise` *)
OnComplete(p) == Resolve(p, WorkerResult(TRUE, NoError))

(* testWorker's catch block: the errorMessage it computes for a thrown e;  *)
(* "message" stands for any non-empty string (the thrown string, or an     *)
(* Error's stack or message)                                               *)
ErrorMessage(e) ==
  IF e \in {"string", "emptyString"} THEN (IF e = "string" THEN "message" ELSE "")
  ELSE IF e = "Error" THEN "message"
  ELSE "undefined"

(* testWorker's `if (errorMessage)`: whether the error event is emitted *)
Emits(e) == ErrorMessage(e) \notin {"", "undefined"}

(* a pool call: where it is, whether the test body threw, and whether the  *)
(* worker emitted the error event                                          *)
Call(phase, threw, emitted) == [phase |-> phase, threw |-> threw, emitted |-> emitted]
NewCall == Call("running", FALSE, FALSE)

(***************************************************************************)
(* Status of an attempt (the table of section 4.C of the specification)    *)
(***************************************************************************)
WorkerOutcome(wr) ==
  IF wr.passed THEN "success"
  ELSE IF wr.error.text = "timeout" THEN "timeout"
  ELSE IF wr.error.text \in {"rejection", "rejection stack"} THEN "crash"
  ELSE "failure"

StatusOf(wr, ann) ==
  IF wr.state = "skipped" THEN "skipped"
  ELSE IF WorkerOutcome(wr) = "success"
       THEN (IF "fail" \in ann THEN "unexpected" ELSE "expected")
  ELSE IF WorkerOutcome(wr) = "failure"
       THEN (IF "fail" \in ann THEN "expected" ELSE "unexpected")
  ELSE "unexpected"

(* a test annotated skip is not dispatched: its call resolves as skipped *)
IsSkipped(t) == "skip" \in annotations[t]

(***************************************************************************)
(* run(): selection                                                        *)
(***************************************************************************)
(* the tests of the suite tree *)
Declared == 1 .. numDeclared

(* rootSuite.allTests(): the tests are numbered in that order *)
RootAllTests == [k \in 1 .. numDeclared |-> k]

(* refine with only annotations *)
OnlyRefine(all) ==
  IF \E k \in 1 .. Len(all) : "only" \in annotations[all[k]]
  THEN SelectSeq2(all, {t \in Tests : "only" \in annotations[t]})
  ELSE all

(* FilterInvalid with every pattern accepted *)
FilterInvalidNever == FALSE

(* new RegExp(filter) throws for some filter *)
FilterInvalid == BadPattern \in Range(testFilter)

(* refine with test filters *)
FilterRefine(all) ==
  IF Len(testFilter) > 0
  THEN SelectSeq2(all, {t \in Tests : FilePath(t) \in Range(testFilter)})
  ELSE all

(* reporter.end(rootSuite): the number of failures *)
Failures ==
  Cardinality({t \in Range(allTests) :
                 Outcome(StatusesOf(results[t])) \notin {"expected", "flaky"}})

(***************************************************************************)
(* Initial states                                                          *)
(***************************************************************************)
(* the files declare at most NumTests tests, numbered in the order of      *)
(* rootSuite.allTests(), file by file; a file declares its tests on one    *)
(* row, under equal or different titles (the first test's being "a")       *)
TreeInputs ==
  /\ numDeclared \in 1 .. NumTests
  /\ fileOf \in [Tests -> Files]
  /\ row \in [Tests -> Rows]
  /\ annotations \in [Tests -> AnnotationSets]
  /\ title \in [Tests -> Titles]
  /\ fileOf[1] = 1
  /\ title[1] = "a"
  /\ \A t \in Declared : t > 1 => fileOf[t] \in {fileOf[t - 1], fileOf[t - 1] + 1}
  /\ \A t \in Tests \ Declared : fileOf[t] = 1 /\ title[t] = "a" /\ annotations[t] = {}

ConfigInputs ==
  /\ retries \in RetryValues
  /\ \E c \in TimeoutConfigs : timeout = c[1] /\ globalTimeout = c[2]
  /\ testFilter \in FilterInputs

RunLoaded ==
  /\ pc = "start"
  /\ allTests = << >>
  /\ filteredTestIds = {}
  /\ timerArmed = FALSE
  /\ exitCode = 0 - 1
  /\ stderr = ""
  /\ task = [t \in Tests |-> "idle"]
  /\ attempt = [t \in Tests |-> 0]
  /\ promise = [t \in Tests |-> Pending]
  /\ calls = [t \in Tests |-> << >>]
  /\ reporterStarted = FALSE
  /\ reporterEnded = FALSE
  /\ endTests = [t \in Tests |-> << >>]
  /\ inEndTest = {}

RunIdle == RunLoaded /\ results = [t \in Tests |-> << >>]

(* a reporter whose endTest is done when it returns *)
ReporterSync == endTestAsync = FALSE

OutcomeIdle == outcome = [t \in Tests |-> "none"]

CoreTests == 1 .. NumCoreTests

CoreLoaded ==
  /\ coreIdx = 0
  /\ corePassed = [t \in CoreTests |-> "unset"]
  /\ coreErrorStack = [t \in CoreTests |-> FALSE]
  /\ coreTimer = FALSE
  /\ coreExit = 0 - 1

CoreIdle == corePc = "off" /\ CoreLoaded

MaxWorkerCalls == 3
Paths == {1, 2}
WorkerCalls == 1 .. MaxWorkerCalls

WorkerLoaded ==
  /\ wCalls = 0
  /\ wPath = 0
  /\ importSet = {}
  /\ imports = [p \in Paths |-> 0]
  /\ ptys = {}
  /\ wEmitted = [c \in WorkerCalls |-> "none"]

WorkerIdle == wPc = "off" /\ importThrows = [p \in Paths |-> FALSE] /\ WorkerLoaded

(* the interval toHaveValue polls with *)
PollInterval == 50
MaxSamples == 3
ExpectTimeouts == {k * PollInterval : k \in 0 .. MaxSamples - 1}
ViewLines == 1
BufferLines == {<< >>, <<"x">>, <<"y">>, <<"y", "x">>}
Buffers == {<<a, b>> : a \in BufferLines, b \in BufferLines}
ExpectedKinds == {"string", "regex", "regexG"}
ExpectedValues == {[text |-> <<"x">>, kind |-> k] : k \in ExpectedKinds}

(* an assertion that was not made *)
NoMatcher ==
  [pc |-> "idle", lastIndex |-> 0, elapsed |-> 0, pass |-> FALSE,
   sawPresent |-> FALSE, sawAbsent |-> FALSE]

MatcherLoaded ==
  /\ stable = TRUE
  /\ matcher = [n \in BOOLEAN |-> NoMatcher]

MatcherIdle ==
  /\ buffer = << << >>, << >> >>
  /\ expected = [text |-> <<"x">>, kind |-> "string"]
  /\ full = FALSE
  /\ expectTimeout = 0
  /\ MatcherLoaded

MaxOps == 5
OptionKeys == {"shell", "rows"}
(* options objects; 0 stands for a key that is not set *)
NoOptions == [k \in OptionKeys |-> 0]
UseArgs == {[shell |-> 1, rows |-> 0], [shell |-> 2, rows |-> 0], [shell |-> 0, rows |-> 1]}

(* the file suite a loader starts from; options is a reference to an       *)
(* options object of the loader's heap, declared is what test.use was      *)
(* given while the suite was ambient                                       *)
FileSuite(options) ==
  [title |-> <<"f">>, options |-> options, type |-> "file", declared |-> NoOptions,
   parent |-> 0]

(* the state of a process that is about to evaluate the file: the file     *)
(* suite is ambient (runner line 117, worker line 149)                     *)
Loader(options, hasRegistry) ==
  [hasRegistry |-> hasRegistry, suites |-> <<FileSuite(1)>>, ambient |-> 1,
   stack |-> << >>, tests |-> << >>, registry |-> {}, heap |-> <<options>>]

DeclLoaded ==
  /\ script = << >>
  /\ orch = Loader(NoOptions, FALSE)
  /\ work = Loader(NoOptions, TRUE)

DeclIdle == dphase = "off" /\ DeclLoaded

SideIdle == WorkerIdle /\ MatcherIdle /\ DeclIdle

(* inputs of the parts of the model a specification does not exercise *)
TreeFixed ==
  /\ numDeclared = NumTests
  /\ fileOf = [t \in Tests |-> 1]
  /\ row = [t \in Tests |-> 1]
  /\ title = [t \in Tests |-> "a"]
  /\ annotations = [t \in Tests |-> {}]

ConfigFixed ==
  /\ retries = 0
  /\ timeout = 0
  /\ globalTimeout = 0
  /\ testFilter = << >>

Init == TreeInputs /\ ConfigInputs /\ RunIdle /\ ReporterSync /\ OutcomeIdle /\ CoreIdle /\ SideIdle

(***************************************************************************)
(* run(): lines 123-158, selection and reporter.start                      *)
(***************************************************************************)
Select ==
  /\ pc = "start"
  /\ IF Len(testFilter) > 0 /\ FilterInvalid
     THEN /\ stderr' = "invalid test filter"
          /\ exitCode' = 1
          /\ pc' = "exited"
          /\ UNCHANGED <<allTests, reporterStarted>>
     ELSE /\ allTests' = FilterRefine(OnlyRefine(RootAllTests))
          /\ reporterStarted' = TRUE
          /\ pc' = "selected"
          /\ UNCHANGED <<stderr, exitCode>>
  /\ UNCHANGED <<treeVars, configVars, filteredTestIds, timerArmed, taskVars,
                 reporterEnded, endTests, endTestAsync, inEndTest, outcome, coreVars, sideVars>>

(***************************************************************************)
(* runSuites(): the body of one task                                       *)
(***************************************************************************)
(* AttemptCap without the clamp of negative retries *)
AttemptCapUnclamped == retries + 1

(* Math.max(0, getRetries()) + 1 *)
AttemptCap == Max(0, retries) + 1

(* the promise a new runTestWorker call returns *)
CallPromise(t) == IF IsSkipped(t) THEN SkippedResult ELSE Pending

(* a call that ended and is not the latest one of its test is forgotten *)
Gone == Call("gone", FALSE, FALSE)
InFlight == {"running", "emitted"}
Forget(cs) == [k \in 1 .. Len(cs) |-> IF cs[k].phase \in InFlight THEN cs[k] ELSE Gone]

(* the pool calls of t after a new runTestWorker call: pool.exec *)
CallDispatch(t, cs) == IF IsSkipped(t) THEN cs ELSE Append(Forget(cs), NewCall)

(* line 52: the test takes part in the run *)
Gate(t, ids) == Id(t) \in ids

(* Breaks never leaving the loop *)
BreaksNever(status) == FALSE

(* Breaks leaving the loop after expected only *)
BreaksOnExpectedOnly(status) == status = "expected"

(* line 74: the loop leaves after this status *)
Breaks(status) == status = "expected" \/ status = "skipped"

(* run() lines 160-174: arm the global timer, call runSuites; every task   *)
(* runs up to its first await                                              *)
StartSuites ==
  /\ pc = "selected"
  /\ timerArmed' = (globalTimeout > 0)
  /\ filteredTestIds' = {Id(t) : t \in Range(allTests)}
  /\ LET enters(t) == Gate(t, filteredTestIds') /\ 0 < AttemptCap
     IN /\ task' = [t \in Tests |->
                      IF t \notin Declared THEN task[t]
                      ELSE IF ~Gate(t, filteredTestIds') THEN "returned"
                      ELSE IF enters(t) THEN "awaiting" ELSE "done"]
        /\ promise' = [t \in Tests |->
                         IF t \in Declared /\ enters(t) THEN CallPromise(t) ELSE promise[t]]
        /\ calls' = [t \in Tests |->
                       IF t \in Declared /\ enters(t) THEN CallDispatch(t, calls[t])
                       ELSE calls[t]]
  /\ pc' = "running"
  /\ UNCHANGED <<treeVars, configVars, allTests, exitCode, stderr, attempt, results,
                 reporterVars, outcome, coreVars, sideVars>>

(* Awaited with the await missing *)
AwaitMissing(p) == TRUE

(* `await`: the task continues once the promise is settled *)
Awaited(p) == p.state # "pending"

(* lines 68-74 and the next turn of the loop: the task continues after     *)
(* `await runTestWorker(...)`                                              *)
Resume(t) ==
  /\ pc = "running"
  /\ task[t] = "awaiting"
  /\ Awaited(promise[t])
  /\ LET status == StatusOf(promise[t], annotations[t])
         testResult == [status |-> status, error |-> promise[t].error]
     IN /\ results' = [results EXCEPT ![t] = Append(@, testResult)]
        /\ endTests' = [endTests EXCEPT ![t] = Append(@, testResult)]
        /\ inEndTest' = IF endTestAsync THEN inEndTest \cup {<<t, Len(endTests'[t])>>}
                        ELSE inEndTest
        /\ IF Breaks(status) \/ ~(attempt[t] + 1 < AttemptCap)
           THEN /\ task' = [task EXCEPT ![t] = "done"]
                /\ UNCHANGED <<attempt, promise, calls>>
           ELSE /\ attempt' = [attempt EXCEPT ![t] = @ + 1]
                /\ promise' = [promise EXCEPT ![t] = CallPromise(t)]
                /\ calls' = [calls EXCEPT ![t] = CallDispatch(t, @)]
                /\ UNCHANGED task
  /\ UNCHANGED <<treeVars, configVars, runVars, reporterStarted, reporterEnded,
                 endTestAsync, outcome, coreVars, sideVars>>

(***************************************************************************)
(* One pool call: the worker side (testWorker) and what reaches the        *)
(* orchestrator side (runTestWorker).  Call k of test t settles promise[t] *)
(* only while it is the call in progress; the promise of an earlier call   *)
(* is settled already.                                                     *)
(***************************************************************************)
CallIn(t, k, phases) == k \in 1 .. Len(calls[t]) /\ calls[t][k].phase \in phases

Settle(t, k, p) == IF k = Len(calls[t]) THEN p ELSE promise[t]

(* call k of t ends in `phase` *)
Ended(t, k, phase, threw, emitted) ==
  IF k = Len(calls[t]) THEN Call(phase, threw, emitted) ELSE Gone

WorkerFrame == UNCHANGED <<treeVars, configVars, runVars, task, attempt, results,
                           reporterVars, outcome, coreVars, sideVars>>

(* the test body returns (or fulfils): testWorker returns, the pool        *)
(* promise fulfils                                                         *)
BodyReturns(t, k) ==
  /\ pc = "running"
  /\ CallIn(t, k, {"running"})
  /\ calls' = [calls EXCEPT ![t][k] = Ended(t, k, "completed", FALSE, FALSE)]
  /\ promise' = [promise EXCEPT ![t] = Settle(t, k, OnComplete(@))]
  /\ WorkerFrame

(* the test body throws (or rejects with) e: testWorker's catch block      *)
BodyThrows(t, k, e) ==
  /\ pc = "running"
  /\ CallIn(t, k, {"running"})
  /\ IF Emits(e)
     THEN /\ calls' = [calls EXCEPT ![t][k] = Call("emitted", TRUE, TRUE)]
          /\ promise' = [promise EXCEPT ![t] = Settle(t, k, OnPayload(@, ErrorMessage(e)))]
     ELSE /\ calls' = [calls EXCEPT ![t][k] = Ended(t, k, "completed", TRUE, FALSE)]
          /\ promise' = [promise EXCEPT ![t] = Settle(t, k, OnComplete(@))]
  /\ WorkerFrame

(* testWorker returns after it emitted the error event *)
WorkerReturns(t, k) ==
  /\ pc = "running"
  /\ CallIn(t, k, {"emitted"})
  /\ calls' = [calls EXCEPT ![t][k] = Ended(t, k, "completed", TRUE, TRUE)]
  /\ promise' = [promise EXCEPT ![t] = Settle(t, k, OnComplete(@))]
  /\ WorkerFrame

(* what workerpool's timeout does to the worker of the call: it is killed  *)
PhaseAfterTimeout == "killed"

(* poolPromise.timeout(timeout): the deadline passes while the pool        *)
(* promise is pending; workerpool kills the worker and rejects             *)
PoolTimeout(t, k) ==
  /\ pc = "running"
  /\ timeout > 0
  /\ CallIn(t, k, {"running", "emitted"})
  /\ calls' = [calls EXCEPT ![t][k] = Ended(t, k, PhaseAfterTimeout, @.threw, @.emitted)]
  /\ promise' = [promise EXCEPT ![t] = Settle(t, k, OnReject(@, TimeoutError))]
  /\ WorkerFrame

(* the worker process dies: workerpool rejects with an Error *)
WorkerCrashes(t, k) ==
  /\ pc = "running"
  /\ CallIn(t, k, {"running"})
  /\ calls' = [calls EXCEPT ![t][k] = Ended(t, k, "crashed", FALSE, FALSE)]
  /\ promise' = [promise EXCEPT ![t] = Settle(t, k, OnReject(@, WorkerCrash))]
  /\ WorkerFrame

(***************************************************************************)
(* run(): the global timer and the end of the run                          *)
(***************************************************************************)
(* TimerCallbackPc with the process.exit(1) missing *)
TimerCallbackNoExit == pc

(* where the process is after the timer's callback ran: process.exit(1) *)
TimerCallbackPc == "exited"

GlobalTimer ==
  /\ timerArmed
  /\ pc # "exited"
  /\ stderr' = "global timeout"
  /\ timerArmed' = FALSE
  /\ pc' = TimerCallbackPc
  /\ exitCode' = IF pc' = "exited" THEN 1 ELSE exitCode
  /\ UNCHANGED <<treeVars, configVars, allTests, filteredTestIds, taskVars,
                 reporterVars, outcome, coreVars, sideVars>>

(* Promise.all(tasks) settles; lines 175-179: pool.terminate(true) *)
PoolTerminate ==
  /\ pc = "running"
  /\ \A t \in Declared : task[t] \in {"returned", "done"}
  /\ pc' = "terminated"
  /\ calls' = [t \in Tests |->
                 [k \in 1 .. Len(calls[t]) |->
                    IF calls[t][k].phase \in InFlight
                    THEN Ended(t, k, "terminated", calls[t][k].threw, calls[t][k].emitted)
                    ELSE calls[t][k]]]
  /\ UNCHANGED <<treeVars, configVars, allTests, filteredTestIds, timerArmed, exitCode,
                 stderr, task, attempt, results, promise, reporterVars, outcome, coreVars, sideVars>>

(* lines 180-181: reporter.end(rootSuite), process.exit(failures) *)
End ==
  /\ pc = "terminated"
  /\ reporterEnded' = TRUE
  /\ outcome' = [t \in Tests |->
                   IF t \in Declared THEN Outcome(StatusesOf(results[t])) ELSE outcome[t]]
  /\ exitCode' = Failures
  /\ timerArmed' = FALSE
  /\ pc' = "exited"
  /\ UNCHANGED <<treeVars, configVars, allTests, filteredTestIds, stderr, taskVars,
                 reporterStarted, endTests, endTestAsync, inEndTest, coreVars, sideVars>>

Next ==
  \/ Select
  \/ StartSuites
  \/ \E t \in Tests : Resume(t)
  \/ \E t \in Tests, k \in 1 .. MaxRetries + 1 : BodyReturns(t, k)
  \/ \E t \in Tests, k \in 1 .. MaxRetries + 1, e \in ThrownValues : BodyThrows(t, k, e)
  \/ \E t \in Tests, k \in 1 .. MaxRetries + 1 : WorkerReturns(t, k)
  \/ \E t \in Tests, k \in 1 .. MaxRetries + 1 : PoolTimeout(t, k)
  \/ \E t \in Tests, k \in 1 .. MaxRetries + 1 : WorkerCrashes(t, k)
  \/ GlobalTimer
  \/ PoolTerminate
  \/ End

Spec == Init /\ [][Next]_vars

(***************************************************************************)
(* A reporter whose endTest is asynchronous: the call made at line 73      *)
(* returns a promise that runSuites does not await, and the work of the    *)
(* call ends later.                                                        *)
(***************************************************************************)
EndTestSettles(t, i) ==
  /\ <<t, i>> \in inEndTest
  /\ pc # "exited"
  /\ inEndTest' = inEndTest \ {<<t, i>>}
  /\ UNCHANGED <<treeVars, configVars, runVars, taskVars, reporterStarted, reporterEnded,
                 endTests, endTestAsync, outcome, coreVars, sideVars>>

NextReporter ==
  \/ Next
  \/ \E t \in Tests, i \in 1 .. MaxRetries + 1 : EndTestSettles(t, i)

(* the runs with an asynchronous reporter: tests without annotations, run once *)
InitReporter ==
  /\ TreeInputs /\ RunIdle /\ OutcomeIdle /\ CoreIdle /\ SideIdle
  /\ \A t \in Tests : annotations[t] = {}
  /\ retries = 0
  /\ \E c \in TimeoutConfigs : timeout = c[1] /\ globalTimeout = c[2]
  /\ testFilter = << >>
  /\ endTestAsync = TRUE

SpecReporter == InitReporter /\ [][NextReporter]_vars

(* the runs over a suite tree of one test *)
InitSolo == Init /\ numDeclared = 1

SpecSolo == InitSolo /\ [][Next]_vars

(***************************************************************************)
(* The pool promise rejects with a value that is no TimeoutError and no    *)
(* Error: a string, or any other value; the catch block of runTestWorker   *)
(* (lines 186-207) runs with it.                                           *)
(***************************************************************************)
PoolRejects(t, k, e) ==
  /\ pc = "running"
  /\ CallIn(t, k, {"running", "emitted"})
  /\ calls' = [calls EXCEPT ![t][k] = Ended(t, k, "rejected", @.threw, @.emitted)]
  /\ promise' = [promise EXCEPT ![t] = Settle(t, k, OnReject(@, e))]
  /\ WorkerFrame

NextPool ==
  \/ Next
  \/ \E t \in Tests, k \in 1 .. MaxRetries + 1, e \in {StringRejection, OtherRejection} :
        PoolRejects(t, k, e)

(* the runs of one test, every way its pool calls can end *)
SpecPool == InitSolo /\ [][NextPool]_vars

(* the same, where a step that can be taken is eventually taken: the event *)
(* loop runs every continuation that is ready, the pool delivers every     *)
(* event and enforces the timeout that was set                             *)
SpecPoolFair == SpecPool /\ WF_vars(NextPool)

(***************************************************************************)
(* TestCase.outcome() on arbitrary results lists                           *)
(***************************************************************************)
RECURSIVE SeqsUpTo(_, _)
SeqsUpTo(S, n) ==
  IF n = 0 THEN {<< >>}
  ELSE LET shorter == SeqsUpTo(S, n - 1)
       IN shorter \cup {Append(q, x) : q \in {r \in shorter : Len(r) = n - 1}, x \in S}

ResultWith(status) == [status |-> status, error |-> NoError]

(* the first test holds any results list of at most MaxLen results *)
InitOutcome ==
  /\ TreeFixed /\ ConfigFixed /\ RunLoaded /\ ReporterSync /\ OutcomeIdle /\ CoreIdle /\ SideIdle
  /\ \E ss \in SeqsUpTo(Statuses, MaxLen) :
        results = [t \in Tests |->
                     IF t = 1 THEN [k \in 1 .. Len(ss) |-> ResultWith(ss[k])] ELSE << >>]

(* test.outcome() is called *)
CallOutcome(t) ==
  /\ outcome' = [outcome EXCEPT ![t] = Outcome(StatusesOf(results[t]))]
  /\ UNCHANGED <<treeVars, configVars, runVars, taskVars, reporterVars, coreVars, sideVars>>

NextOutcome == \E t \in Tests : CallOutcome(t)

SpecOutcome == InitOutcome /\ [][NextOutcome]_vars

(***************************************************************************)
(* src/core/runner.ts: the sequential runner                               *)
(***************************************************************************)
InitCore ==
  /\ TreeFixed /\ RunIdle /\ ReporterSync /\ OutcomeIdle /\ SideIdle
  /\ retries = 0 /\ timeout = 0 /\ testFilter = << >>
  /\ globalTimeout \in {0, 100}
  /\ corePc = "start" /\ CoreLoaded

(* run() lines 41-50: arm the global timer, start runSuite; runSuite runs  *)
(* the subsuites' tests before a suite's own, one test at a time: the      *)
(* tests are numbered in that order                                        *)
CoreRun ==
  /\ corePc = "start"
  /\ coreTimer' = (globalTimeout > 0)
  /\ coreIdx' = 1
  /\ corePc' = "awaiting"
  /\ UNCHANGED <<treeVars, configVars, runVars, taskVars, reporterVars, outcome,
                 corePassed, coreErrorStack, coreExit, sideVars>>

(* the exit code run() ends with: line 51 *)
CoreExitCode == 0

(* runSuite lines 17-23: the awaited runTestWorker call resolves with      *)
(* passed, and with an error or none; after the last test, line 51         *)
CoreTestEnds(passed, hasError) ==
  /\ corePc = "awaiting"
  /\ corePassed' = [corePassed EXCEPT ![coreIdx] = IF passed THEN "passed" ELSE "failed"]
  /\ coreErrorStack' = [coreErrorStack EXCEPT ![coreIdx] = (~passed /\ hasError)]
  /\ IF coreIdx < NumCoreTests
     THEN /\ coreIdx' = coreIdx + 1
          /\ UNCHANGED <<corePc, coreExit, coreTimer>>
     ELSE /\ corePc' = "exited"
          /\ coreExit' = CoreExitCode
          /\ coreTimer' = FALSE
          /\ UNCHANGED coreIdx
  /\ UNCHANGED <<treeVars, configVars, runVars, taskVars, reporterVars, outcome, sideVars>>

(* lines 42-45: the global timer fires *)
CoreGlobalTimer ==
  /\ coreTimer
  /\ corePc # "exited"
  /\ coreTimer' = FALSE
  /\ coreExit' = 1
  /\ corePc' = "exited"
  /\ UNCHANGED <<treeVars, configVars, runVars, taskVars, reporterVars, outcome,
                 coreIdx, corePassed, coreErrorStack, sideVars>>

NextCore ==
  \/ CoreRun
  \/ \E passed \in BOOLEAN, hasError \in BOOLEAN : CoreTestEnds(passed, hasError)
  \/ CoreGlobalTimer

SpecCore == InitCore /\ [][NextCore]_vars

(***************************************************************************)
(* worker.ts: one worker process serving testWorker calls one at a time    *)
(***************************************************************************)
RunnerIdle == TreeFixed /\ ConfigFixed /\ RunIdle /\ ReporterSync /\ OutcomeIdle /\ CoreIdle

InitWorker ==
  /\ RunnerIdle /\ MatcherIdle /\ DeclIdle
  /\ wPc = "idle"
  /\ importThrows \in [Paths -> BOOLEAN]
  /\ WorkerLoaded

(* runTest line 157: the terminal of call c is spawned; nothing in runTest *)
(* or testWorker ends it                                                   *)
Spawn(live, c) == live \cup {c}

(* testWorker is called with importPath p: lines 227-230 emit startTime,   *)
(* runTest lines 148-152 import the file unless importSet has the path,    *)
(* lines 155-158 otherwise                                                 *)
TestWorker(p) ==
  /\ wPc = "idle"
  /\ wCalls < MaxWorkerCalls
  /\ wCalls' = wCalls + 1
  /\ wPath' = p
  /\ wEmitted' = [wEmitted EXCEPT ![wCalls'] = "start"]
  /\ IF p \notin importSet
     THEN /\ imports' = [imports EXCEPT ![p] = @ + 1]
          /\ wPc' = "importing"
          /\ UNCHANGED ptys
     ELSE /\ ptys' = Spawn(ptys, wCalls')
          /\ wPc' = "body"
          /\ UNCHANGED imports
  /\ UNCHANGED <<mainVars, matcherVars, declVars, importThrows, importSet>>

(* `await import(importPath)` resolves: line 153, then lines 155-158 *)
ImportResolves ==
  /\ wPc = "importing"
  /\ ~importThrows[wPath]
  /\ importSet' = importSet \cup {wPath}
  /\ ptys' = Spawn(ptys, wCalls)
  /\ wPc' = "body"
  /\ UNCHANGED <<mainVars, matcherVars, declVars, wCalls, wPath, importThrows, imports, wEmitted>>

(* `await import(importPath)` throws an Error: line 153 is skipped, the    *)
(* catch of testWorker emits the error and testWorker returns              *)
ImportRejects ==
  /\ wPc = "importing"
  /\ importThrows[wPath]
  /\ wEmitted' = [wEmitted EXCEPT ![wCalls] = IF Emits("Error") THEN "error" ELSE @]
  /\ wPc' = "idle"
  /\ wPath' = 0
  /\ UNCHANGED <<mainVars, matcherVars, declVars, wCalls, importThrows, importSet, imports, ptys>>

(* the test function's promise resolves: runTest and testWorker return *)
TestFunctionReturns ==
  /\ wPc = "body"
  /\ wPc' = "idle"
  /\ wPath' = 0
  /\ UNCHANGED <<mainVars, matcherVars, declVars, wCalls, importThrows, importSet, imports, ptys, wEmitted>>

(* the test function throws e: lines 233-247 *)
TestFunctionThrows(e) ==
  /\ wPc = "body"
  /\ wEmitted' = [wEmitted EXCEPT ![wCalls] = IF Emits(e) THEN "error" ELSE @]
  /\ wPc' = "idle"
  /\ wPath' = 0
  /\ UNCHANGED <<mainVars, matcherVars, declVars, wCalls, importThrows, importSet, imports, ptys>>

NextWorker ==
  \/ \E p \in Paths : TestWorker(p)
  \/ ImportResolves
  \/ ImportRejects
  \/ TestFunctionReturns
  \/ \E e \in ThrownValues : TestFunctionThrows(e)

SpecWorker == InitWorker /\ [][NextWorker]_vars

(***************************************************************************)
(* toHaveValue.ts: the polling matcher, for the two values of isNot        *)
(***************************************************************************)
RECURSIVE Join(_)
(* lines.join("") *)
Join(lines) == IF lines = << >> THEN << >> ELSE Head(lines) \o Join(Tail(lines))

(* lines 19-25: the selected buffer rendered to one string *)
Rendered(buf, f) ==
  Join(IF f THEN buf ELSE SubSeq(buf, Len(buf) - ViewLines + 1, Len(buf)))

(* text occurs in str at position i (from 1) *)
MatchAt(str, text, i) ==
  /\ i + Len(text) - 1 <= Len(str)
  /\ \A k \in 1 .. Len(text) : str[i + k - 1] = text[k]

(* the first position from `from` on where text occurs in str, 0 if none *)
FirstMatch(str, text, from) ==
  LET at == {i \in from .. Len(str) : MatchAt(str, text, i)}
  IN IF at = {} THEN 0 ELSE CHOOSE i \in at : \A j \in at : i <= j

(* String.prototype.includes *)
Includes(str, text) == FirstMatch(str, text, 1) # 0

(* RegExp.prototype.test: a regular expression with the g flag searches    *)
(* from its lastIndex and moves it behind the match, or back to 0          *)
RegExpTest(e, str, lastIndex) ==
  IF e.kind = "regexG"
  THEN LET m == FirstMatch(str, e.text, lastIndex + 1)
       IN IF m # 0 THEN [value |-> TRUE, lastIndex |-> m - 1 + Len(e.text)]
          ELSE [value |-> FALSE, lastIndex |-> 0]
  ELSE [value |-> Includes(str, e.text), lastIndex |-> lastIndex]

(* lines 27-29: the callback handed to poll *)
Predicate(e, str, lastIndex) ==
  IF e.kind = "string"
  THEN [value |-> Includes(str, e.text), lastIndex |-> lastIndex]
  ELSE RegExpTest(e, str, lastIndex)

(* poll: the condition that ends the polling before the deadline *)
PollResolved(isNot, value) == IF isNot THEN ~value ELSE value

(* poll: the deadline has passed *)
PollExpired(elapsed) == elapsed >= expectTimeout

(* one sample of poll for the assertion made with isNot; the value poll    *)
(* resolves with is that of the callback at the last sample                *)
Sample(isNot) ==
  LET m == matcher[isNot]
      str == Rendered(buffer, full)
      r == Predicate(expected, str, m.lastIndex)
      ends == PollResolved(isNot, r.value) \/ PollExpired(m.elapsed)
  IN [pc |-> IF ends THEN "done" ELSE "polling",
      lastIndex |-> r.lastIndex,
      elapsed |-> IF ends THEN m.elapsed ELSE m.elapsed + PollInterval,
      pass |-> IF ends THEN r.value ELSE FALSE,
      sawPresent |-> m.sawPresent \/ Includes(str, expected.text),
      sawAbsent |-> m.sawAbsent \/ ~Includes(str, expected.text)]

(* expect: the assertion succeeds iff pass differs from isNot *)
Succeeded(isNot) == matcher[isNot].pc = "done" /\ matcher[isNot].pass # isNot
Failed(isNot) == matcher[isNot].pc = "done" /\ matcher[isNot].pass = isNot

InitMatcher ==
  /\ RunnerIdle /\ WorkerIdle /\ DeclIdle
  /\ buffer \in Buffers
  /\ expected \in ExpectedValues
  /\ full \in BOOLEAN
  /\ expectTimeout \in ExpectTimeouts
  /\ MatcherLoaded

(* expect(terminal).toHaveValue(expected) or its .not form is called: the  *)
(* first sample is taken before any sleep                                  *)
Expect(isNot) ==
  /\ matcher[isNot].pc = "idle"
  /\ matcher' = [matcher EXCEPT ![isNot] = Sample(isNot)]
  /\ UNCHANGED <<mainVars, workerVars, declVars, buffer, expected, full, expectTimeout, stable>>

(* the sleep of PollInterval ms ends: the next sample *)
PollWakes(isNot) ==
  /\ matcher[isNot].pc = "polling"
  /\ matcher' = [matcher EXCEPT ![isNot] = Sample(isNot)]
  /\ UNCHANGED <<mainVars, workerVars, declVars, buffer, expected, full, expectTimeout, stable>>

(* the program in the terminal writes: the buffer changes *)
TerminalWrites(b) ==
  /\ b # buffer
  /\ \E n \in BOOLEAN : matcher[n].pc # "done"
  /\ buffer' = b
  /\ stable' = (stable /\ \A n \in BOOLEAN : matcher[n].pc = "idle")
  /\ UNCHANGED <<mainVars, workerVars, declVars, expected, full, expectTimeout, matcher>>

NextMatcher ==
  \/ \E isNot \in BOOLEAN : Expect(isNot)
  \/ \E isNot \in BOOLEAN : PollWakes(isNot)
  \/ \E b \in Buffers : TerminalWrites(b)

SpecMatcher == InitMatcher /\ [][NextMatcher]_vars

(***************************************************************************)
(* test.ts: the declaration calls of one test file, evaluated in the       *)
(* orchestrator (runner line 118) and again in a worker (worker line 152). *)
(* A suite holds a reference to its options object; the objects are in    *)
(* the loader's heap.                                                      *)
(***************************************************************************)
DeclTests == {<<"test", 1>>, <<"test", 2>>, <<"skip", 1>>, <<"fail", 1>>}

DeclOp(op, kind, r, arg) == [row |-> r, kind |-> kind, op |-> op, arg |-> arg]

(* { ...a, ...b } *)
Merge(a, b) == [k \in OptionKeys |-> IF b[k] # 0 THEN b[k] ELSE a[k]]

RECURSIVE SuiteTitles(_, _, _)
(* titlePath(): the titles of the suites from the root down to suite i,    *)
(* for a test declared on row r (no project suite with a title is above    *)
(* the file suite)                                                         *)
SuiteTitles(suites, i, r) ==
  IF i = 0 THEN << >>
  ELSE SuiteTitles(suites, suites[i].parent, r) \o
       << IF suites[i].type = "file"
          THEN suites[i].title \o <<":", ToString(r), ":", ToString(r)>>
          ELSE suites[i].title >>

(* the id of a TestCase: titlePath().join("") *)
TestId(suites, t) == Join(SuiteTitles(suites, t.suite, t.row) \o <<t.title>>)

(* globalThis.tests[id] = test *)
Register(registry, id, k) == {e \in registry : e[1] # id} \cup {<<id, k>>}

(* globalThis.tests[id]: the test held under id, 0 if none *)
Lookup(registry, id) ==
  IF \E e \in registry : e[1] = id THEN (CHOOSE e \in registry : e[1] = id)[2] ELSE 0

(* test / test.skip / test.fail: lines 53-60, 143-156, 174-184 *)
DeclareTest(L, o) ==
  LET t == [row |-> o.row, title |-> <<"a">>, kind |-> o.kind, suite |-> L.ambient]
      k == Len(L.tests) + 1
  IN [L EXCEPT !.tests = Append(@, t),
               !.registry = IF L.hasRegistry /\ o.kind # "fail"
                            THEN Register(@, TestId(L.suites, t), k) ELSE @]

(* suite.options: the options object suite i refers to *)
OptionsOf(L, i) == L.heap[L.suites[i].options]

(* Use changing the ambient suite's options object in place *)
UseInPlace(L, o) ==
  [L EXCEPT !.heap[L.suites[L.ambient].options] = Merge(@, o.arg),
            !.suites[L.ambient].declared = Merge(@, o.arg)]

(* test.use: line 89, a new object is assigned to the ambient suite *)
Use(L, o) ==
  [L EXCEPT !.heap = Append(@, Merge(OptionsOf(L, L.ambient), o.arg)),
            !.suites[L.ambient].options = Len(L.heap) + 1,
            !.suites[L.ambient].declared = Merge(@, o.arg)]

(* test.describe up to the call of the callback: lines 114-122; the new    *)
(* suite refers to the options object of its parent                        *)
Describe(L) ==
  LET parentSuite == L.ambient
      currentSuite == [title |-> <<"d">>, options |-> L.suites[parentSuite].options,
                       type |-> "describe", declared |-> NoOptions,
                       parent |-> parentSuite]
      new == Len(L.suites) + 1
  IN [L EXCEPT !.suites = Append(@, currentSuite),
               !.ambient = new,
               !.stack = Append(@, <<parentSuite, new>>)]

(* where a describe call leaves the ambient suite when its callback returned *)
RestoreAmbient(L) == L.stack[Len(L.stack)][1]

(* the callback returns: line 124 *)
DescribeReturns(L) ==
  [L EXCEPT !.ambient = RestoreAmbient(L), !.stack = SubSeq(@, 1, Len(@) - 1)]

(* the callback throws and the file catches it around the describe call:   *)
(* line 124 is not reached                                                 *)
DescribeThrows(L) == [L EXCEPT !.stack = SubSeq(@, 1, Len(@) - 1)]

(* one declaration call of the file *)
Step(L, o) ==
  CASE o.op = "test" -> DeclareTest(L, o)
    [] o.op = "use" -> Use(L, o)
    [] o.op = "describe" -> Describe(L)
    [] o.op = "return" -> DescribeReturns(L)
    [] o.op = "throw" -> DescribeThrows(L)

RECURSIVE Replay(_, _)
(* the evaluation of the whole file from loader state L *)
Replay(ops, L) == IF ops = << >> THEN L ELSE Replay(Tail(ops), Step(L, Head(ops)))

(* getMockSuite: the file suite handed to the worker carries the options   *)
(* the file suite has in the orchestrator; describe suites are left out    *)
MockLoader == Loader(OptionsOf(orch, 1), TRUE)

InitDecl ==
  /\ RunnerIdle /\ WorkerIdle /\ MatcherIdle
  /\ dphase = "load"
  /\ DeclLoaded

(* the file evaluates one more declaration call *)
Declare(o) ==
  /\ dphase = "load"
  /\ Len(script) < MaxOps
  /\ o.op \in {"return", "throw"} => orch.stack # << >>
  /\ orch' = Step(orch, o)
  /\ script' = Append(script, o)
  /\ UNCHANGED <<mainVars, workerVars, matcherVars, dphase, work>>

(* the file is evaluated to its end in the orchestrator; a test of it is   *)
(* dispatched and the worker imports the file under the mock suite         *)
WorkerImport ==
  /\ dphase = "load"
  /\ orch.stack = << >>
  /\ orch.tests # << >>
  /\ work' = Replay(script, MockLoader)
  /\ dphase' = "worker"
  /\ UNCHANGED <<mainVars, workerVars, matcherVars, script, orch>>

NextDecl ==
  \/ \E d \in DeclTests : Declare(DeclOp("test", d[1], d[2], NoOptions))
  \/ \E a \in UseArgs : Declare(DeclOp("use", "none", 0, a))
  \/ Declare(DeclOp("describe", "none", 0, NoOptions))
  \/ Declare(DeclOp("return", "none", 0, NoOptions))
  \/ Declare(DeclOp("throw", "none", 0, NoOptions))
  \/ WorkerImport

SpecDecl == InitDecl /\ [][NextDecl]_vars

(***************************************************************************)
(* Properties                                                              *)
(***************************************************************************)
(* retries + 1, a negative retries counting as 0 *)
ClaimCap == IF retries < 0 THEN 1 ELSE retries + 1

(* the index of the first result whose status is in S; beyond the cap if   *)
(* there is none                                                           *)
FirstIndex(rs, S) ==
  IF \E k \in 1 .. Len(rs) : rs[k].status \in S
  THEN CHOOSE k \in 1 .. Len(rs) :
         rs[k].status \in S /\ \A j \in 1 .. (k - 1) : rs[j].status \notin S
  ELSE ClaimCap + 1

(* no attempt is started after an attempt recorded expected or skipped *)
NoAttemptAfterStop ==
  \A t \in Tests : \A k \in 1 .. Len(results[t]) :
     results[t][k].status \in {"expected", "skipped"} =>
        k = Len(results[t]) /\ task[t] = "done" /\ Len(calls[t]) <= k

(* C1 as stated: a test whose task is done ran exactly                     *)
(* min(retries+1, index of its first expected attempt) attempts, never     *)
(* more than retries+1, and none after an expected or skipped attempt.     *)
C1_AsStated ==
  /\ \A t \in Tests :
        /\ Len(results[t]) <= ClaimCap
        /\ task[t] = "done" =>
              Len(results[t]) = Min(ClaimCap, FirstIndex(results[t], {"expected"}))
  /\ NoAttemptAfterStop

(* C1 amended: a test whose task is done ran exactly                       *)
(* min(retries+1, index of its first attempt recorded expected or skipped) *)
(* attempts; it never runs more than retries+1 (negative retries counting  *)
(* as 0), and none after an expected or skipped attempt.                   *)
C1_RetryCap ==
  /\ \A t \in Tests :
        /\ Len(results[t]) <= ClaimCap
        /\ Len(calls[t]) <= ClaimCap
        /\ task[t] = "done" =>
              Len(results[t]) =
                 Min(ClaimCap, FirstIndex(results[t], {"expected", "skipped"}))
  /\ NoAttemptAfterStop

(* a test is done after a retry that ended expected *)
C1_Witness ==
  /\ retries >= 1
  /\ \E t \in Tests :
        /\ task[t] = "done"
        /\ StatusesOf(results[t]) = <<"unexpected", "expected">>

(* C2: when a test has a later pool call, every earlier call of it has     *)
(* produced its terminal outcome (it is no longer running) and its         *)
(* TestResult has been appended; at most one attempt awaits its result.    *)
C2_Sequential ==
  \A t \in Tests :
     /\ Len(calls[t]) <= Len(results[t]) + 1
     /\ \A k \in 1 .. Len(calls[t]) :
           k < Len(calls[t]) => calls[t][k].phase # "running" /\ k <= Len(results[t])

(* a retry is in progress while the worker of the previous attempt, which  *)
(* emitted its error event, has not returned yet                           *)
C2_Witness ==
  \E t \in Tests :
     /\ Len(calls[t]) = 2
     /\ calls[t][1].phase = "emitted"
     /\ calls[t][2].phase = "running"
     /\ Len(results[t]) = 1

(* what the pool reported for a call: the error event if one was emitted,  *)
(* else completion, else the timeout                                       *)
PoolOutcome(c) ==
  IF c.emitted THEN "failure"
  ELSE IF c.phase = "completed" THEN "success"
  ELSE IF c.phase = "killed" THEN "timeout"
  ELSE "other"

(* the table of the claim *)
ClaimStatus(o, ann) ==
  IF o = "success" /\ ann \in {{}, {"only"}} THEN "expected"
  ELSE IF o = "success" /\ "fail" \in ann THEN "unexpected"
  ELSE IF o = "failure" /\ ann \in {{}, {"only"}} THEN "unexpected"
  ELSE IF o = "failure" /\ "fail" \in ann THEN "expected"
  ELSE "unexpected"

(* the latest attempt of t was dispatched and its result is recorded *)
Recorded(t) == Len(calls[t]) > 0 /\ Len(results[t]) = Len(calls[t])
LastCall(t) == calls[t][Len(calls[t])]
LastResult(t) == results[t][Len(results[t])]

(* C3: the status recorded for a dispatched attempt is the table's value   *)
(* for what the pool reported (success, failure, timeout) and the test's   *)
(* annotation.                                                             *)
C3_StatusTable ==
  \A t \in Tests :
     (Recorded(t) /\ PoolOutcome(LastCall(t)) # "other") =>
        LastResult(t).status = ClaimStatus(PoolOutcome(LastCall(t)), annotations[t])

(* a test declared with test.fail succeeded, is recorded unexpected, then  *)
(* failed and is recorded expected                                         *)
C3_Witness ==
  \E t \in Tests :
     /\ "fail" \in annotations[t] /\ Recorded(t)
     /\ PoolOutcome(LastCall(t)) = "failure"
     /\ StatusesOf(results[t]) = <<"unexpected", "expected">>

C5_OnlyGate ==
  (\E t \in Tests : "only" \in annotations[t]) =>
     \A t \in Tests :
        (calls[t] # << >> \/ results[t] # << >>) => "only" \in annotations[t]

(* the outcome the claim describes *)
ClaimOutcome(ss) ==
  IF Len(ss) = 0 THEN "skipped"
  ELSE IF \E k \in 1 .. (Len(ss) - 1) :
             \/ ss[k] = "unexpected" /\ ss[k + 1] = "expected"
             \/ ss[k] = "expected" /\ ss[k + 1] # "expected"
       THEN "flaky"
       ELSE ss[Len(ss)]

(* C6: outcome() of any results list is skipped for the empty list, flaky  *)
(* if some consecutive pair of statuses is (unexpected, expected) or       *)
(* (expected, non-expected), and else the status of the last result.       *)
C6_OutcomeFold ==
  \A t \in Tests :
     outcome[t] # "none" => outcome[t] = ClaimOutcome(StatusesOf(results[t]))

(* outcome() returned flaky for [expected, unexpected] *)
C6_Witness ==
  /\ StatusesOf(results[1]) = <<"expected", "unexpected">>
  /\ outcome[1] = "flaky"

(* C7: when the deadline of a call passes with neither error event nor     *)
(* completion, timeout is > 0, the attempt resolves as the failure with    *)
(* the timeout diagnostic naming timeout, it is recorded unexpected, and   *)
(* the worker of the call is killed.                                       *)
C7_Timeout ==
  \A t \in Tests :
     Len(calls[t]) > 0 =>
        /\ (LastCall(t).phase = "killed" /\ ~LastCall(t).emitted) =>
              /\ timeout > 0
              /\ promise[t] = WorkerResult(FALSE, Err("timeout", timeout))
              /\ Recorded(t) =>
                    LastResult(t) = [status |-> "unexpected",
                                     error |-> Err("timeout", timeout)]
        /\ promise[t].error.text = "timeout" => LastCall(t).phase = "killed"

(* an attempt timed out and is recorded *)
C7_Witness ==
  \E t \in Tests :
     /\ Recorded(t)
     /\ LastCall(t).phase = "killed" /\ ~LastCall(t).emitted
     /\ LastResult(t).error = Err("timeout", 500)

(* C8: once the global timer has fired (the diagnostic is written),        *)
(* globalTimeout is > 0, the process has exited with code 1, and no        *)
(* TestResult is appended and no reporter call is made any more.           *)
C8_GlobalDeadline ==
  /\ [](stderr = "global timeout" => globalTimeout > 0 /\ pc = "exited" /\ exitCode = 1)
  /\ [][stderr = "global timeout" =>
          /\ results' = results
          /\ endTests' = endTests
          /\ reporterStarted' = reporterStarted
          /\ reporterEnded' = reporterEnded]_vars

(* the global timer fired while every test had an attempt in flight *)
C8_Witness ==
  /\ stderr = "global timeout"
  /\ numDeclared > 1
  /\ \A t \in Declared : task[t] = "awaiting" /\ Len(calls[t]) > 0 /\ LastCall(t).phase = "running"

(* C9: when the run completes, the exit code equals the number of tests    *)
(* that did not pass.                                                      *)
C9_ExitCode ==
  (corePc = "exited" /\ \A t \in CoreTests : corePassed[t] # "unset") =>
     coreExit = Cardinality({t \in CoreTests : corePassed[t] = "failed"})

(* C10: whenever the body of an attempt threw, the worker emitted the      *)
(* error event and the attempt is not resolved or recorded as a success.   *)
C10_ThrownIsFailure ==
  \A t \in Tests :
     (Len(calls[t]) > 0 /\ LastCall(t).threw) =>
        /\ LastCall(t).emitted
        /\ ~(promise[t].state = "resolved" /\ promise[t].passed)
        /\ Recorded(t) => LastResult(t).error # NoError


Completed(t) ==
  IF task[t] = "awaiting" THEN attempt[t]
  ELSE IF task[t] = "done" /\ 0 < AttemptCap THEN attempt[t] + 1
  ELSE 0

(***************************************************************************)
(* C20: at every point the results of a test are the results handed to     *)
(* reporter.endTest for it, in the same order, one per completed attempt   *)
(* and at most max(0, retries)+1 of them; a test outside the selection has *)
(* no result and no endTest call.                                          *)
(***************************************************************************)
C20_OneResultPerAttempt ==
  \A t \in Declared :
     /\ endTests[t] = results[t]
     /\ Len(results[t]) = Completed(t)
     /\ Len(results[t]) <= ClaimCap
     /\ (pc # "start" /\ t \notin Range(allTests)) =>
           results[t] = << >> /\ endTests[t] = << >>


(***************************************************************************)
(* C16: at most one reporter.endTest call is in progress at any time,      *)
(* the asynchronous work of a call counting as part of it.                 *)
(***************************************************************************)
C16_EndTestSerialized == Cardinality(inEndTest) <= 1


(***************************************************************************)
(* C11: a PTY that is alive in a worker belongs to the attempt in          *)
(* progress: once a call has ended (with or without an error event) the    *)
(* PTY spawned for it is no longer alive.                                  *)
(***************************************************************************)
C11_PtyDestroyed == \A c \in ptys : wPc = "body" /\ c = wCalls

(***************************************************************************)
(* C12: in one worker process import(path) is evaluated at most once for   *)
(* each source path, whatever the calls and their failures.                *)
(***************************************************************************)
C12_ImportOnce == \A p \in Paths : imports[p] <= 1


(***************************************************************************)
(* C14: on a buffer that did not change, once the assertion and its        *)
(* negation (same expected value, same options) both ended, exactly one    *)
(* of them succeeded.                                                      *)
(***************************************************************************)
C14_InversionDuality ==
  (stable /\ matcher[FALSE].pc = "done" /\ matcher[TRUE].pc = "done") =>
     (Succeeded(FALSE) /\ ~Succeeded(TRUE)) \/ (~Succeeded(FALSE) /\ Succeeded(TRUE))

(***************************************************************************)
(* C15: the negated assertion is still polling only while every sample     *)
(* saw the expected value in the buffer, succeeds iff some sample saw the  *)
(* buffer without it and fails iff every sample up to the deadline saw it; *)
(* the positive assertion, symmetrically, with "present" for "absent".     *)
(***************************************************************************)
C15_NegatedMatch ==
  /\ matcher[TRUE].pc = "polling" => ~matcher[TRUE].sawAbsent
  /\ Succeeded(TRUE) => matcher[TRUE].sawAbsent
  /\ Failed(TRUE) => ~matcher[TRUE].sawAbsent
  /\ matcher[FALSE].pc = "polling" => ~matcher[FALSE].sawPresent
  /\ Succeeded(FALSE) => matcher[FALSE].sawPresent
  /\ Failed(FALSE) => ~matcher[FALSE].sawPresent


(***************************************************************************)
(* C13: two distinct TestCases of the suite tree never have the same id.   *)
(***************************************************************************)
C13_UniqueIds ==
  \A j, k \in 1 .. Len(orch.tests) :
     j # k => TestId(orch.suites, orch.tests[j]) # TestId(orch.suites, orch.tests[k])

RECURSIVE EffectiveOptions(_, _)
(* the shallow merge of what test.use declared on the suites from the root *)
(* down to suite i, the nearest suite winning                              *)
EffectiveOptions(suites, i) ==
  IF i = 0 THEN NoOptions
  ELSE Merge(EffectiveOptions(suites, suites[i].parent), suites[i].declared)

(* runTest lines 155-156: the options the worker spawns the terminal of    *)
(* the test with id `id` with                                              *)
SpawnOptions(id) == OptionsOf(work, work.tests[Lookup(work.registry, id)].suite)

(***************************************************************************)
(* C17: for every test the worker finds under the dispatched id, the       *)
(* options its terminal is spawned with are the shallow merge of the       *)
(* options declared on its ancestor suites, nearest winning, whatever the  *)
(* order of the test.use and test.describe calls.                          *)
(***************************************************************************)
C17_EffectiveOptions ==
  dphase = "worker" =>
     \A k \in 1 .. Len(orch.tests) :
        LET id == TestId(orch.suites, orch.tests[k])
        IN Lookup(work.registry, id) # 0 =>
              SpawnOptions(id) = EffectiveOptions(orch.suites, orch.tests[k].suite)

(* the suite that is ambient by the nesting of the describe calls in       *)
(* progress: the file suite, or the suite of the innermost one             *)
Enclosing(L) == IF L.stack = << >> THEN 1 ELSE L.stack[Len(L.stack)][2]

(***************************************************************************)
(* C18: whenever a describe call has returned or exited, the ambient suite *)
(* is the one that was ambient before the call: at every point the ambient *)
(* suite is the suite of the innermost describe callback in progress, or   *)
(* the file suite.                                                         *)
(***************************************************************************)
C18_AmbientRestored == orch.ambient = Enclosing(orch)


(***************************************************************************)
(* C21: the result of a dispatched attempt is fixed by the first terminal  *)
(* occurrence of its pool call: once the worker emitted the error event    *)
(* the attempt is a failure with that message, also after the pool call    *)
(* completed, timed out or rejected; a call that completed without an      *)
(* error event is a pass; one result is recorded per call; and a resolved  *)
(* result is not changed by any later event of the call.                   *)
(***************************************************************************)
C21_FirstTerminalWins ==
  /\ [](\A t \in Tests :
          Len(calls[t]) > 0 =>
             /\ LastCall(t).emitted => promise[t] = WorkerResult(FALSE, Err("message", 0))
             /\ (LastCall(t).phase = "completed" /\ ~LastCall(t).emitted) =>
                   promise[t] = WorkerResult(TRUE, NoError)
             /\ Len(results[t]) \in {Len(calls[t]) - 1, Len(calls[t])}
             /\ Recorded(t) => LastResult(t).error = promise[t].error)
  /\ [][\A t \in Tests :
          (promise[t].state = "resolved" /\ Len(calls'[t]) = Len(calls[t])) =>
             promise'[t] = promise[t]]_vars

(* the worker emitted the error event, the pool call then completed        *)
(* normally, and the attempt is recorded with the message                  *)
C21_Witness ==
  \E t \in Tests :
     /\ Recorded(t)
     /\ LastCall(t).emitted /\ LastCall(t).phase = "completed"
     /\ LastResult(t).error = Err("message", 0)

(***************************************************************************)
(* C22: with a per-test timeout > 0, every run eventually gets past        *)
(* runSuites (Promise.all settled) or exits, whichever way the pool calls  *)
(* end.                                                                    *)
(***************************************************************************)
C22_EveryAttemptSettles == (timeout > 0) => <>(pc \in {"terminated", "exited"})


(***************************************************************************)
(* C23: in the results of a test every result but the last is unexpected,  *)
(* so expected or skipped occurs only last; the outcome is flaky iff there *)
(* are at least two results and the last is expected, and unexpected when  *)
(* every attempt ended unexpected.                                         *)
(***************************************************************************)
C23_ResultShape ==
  \A t \in Declared :
     LET ss == StatusesOf(results[t])
     IN /\ \A i \in 1 .. Len(ss) - 1 : ss[i] = "unexpected"
        /\ \A i \in 1 .. Len(ss) : ss[i] \in {"expected", "unexpected", "skipped"}
        /\ (Outcome(ss) = "flaky") <=> (Len(ss) >= 2 /\ ss[Len(ss)] = "expected")
        /\ (Len(ss) > 0 /\ \A i \in 1 .. Len(ss) : ss[i] = "unexpected") =>
              Outcome(ss) = "unexpected"

(* a run ended with a test that failed, then passed: its outcome is flaky *)
C23_Witness ==
  \E t \in Declared :
     /\ pc = "exited" /\ reporterEnded
     /\ StatusesOf(results[t]) = <<"unexpected", "expected">>
     /\ outcome[t] = "flaky"


(***************************************************************************)
(* C24: after the worker imported the file under the suite summary, every  *)
(* test of the file, whichever of test, test.skip and test.fail declared   *)
(* it, is found in the worker's registry under the id the orchestrator     *)
(* computed, and the worker computes the same id for it.                   *)
(***************************************************************************)
C24_RegistryLookup ==
  dphase = "worker" =>
     \A k \in 1 .. Len(orch.tests) :
        /\ TestId(work.suites, work.tests[k]) = TestId(orch.suites, orch.tests[k])
        /\ Lookup(work.registry, TestId(orch.suites, orch.tests[k])) # 0


(* the step is a test.use call made while the file is evaluated *)
UseCalled ==
  /\ dphase = "load"
  /\ Len(script') = Len(script) + 1
  /\ script'[Len(script')].op = "use"

(***************************************************************************)
(* C25: a test.use(options) call changes the options of the ambient suite  *)
(* only, to the merge of its options and the argument; the options of      *)
(* every other suite (parent, siblings, describe suites created earlier)   *)
(* are what they were, and no suite is added or made ambient.              *)
(***************************************************************************)
C25_UseFrame ==
  [][UseCalled =>
       /\ Len(orch'.suites) = Len(orch.suites)
       /\ orch'.ambient = orch.ambient
       /\ OptionsOf(orch', orch.ambient) =
             Merge(OptionsOf(orch, orch.ambient), script'[Len(script')].arg)
       /\ \A i \in 1 .. Len(orch.suites) :
             i # orch.ambient => OptionsOf(orch', i) = OptionsOf(orch, i)]_vars

(* test.use was called in a describe suite that was created with its       *)
(* parent's options object: their options now differ                       *)
C25_Witness ==
  /\ script # << >>
  /\ script[Len(script)].op = "use"
  /\ orch.ambient # 1
  /\ OptionsOf(orch, orch.ambient) # OptionsOf(orch, orch.suites[orch.ambient].parent)

====
